---- MODULE Spec2Model ----
(***************************************************************************)
(* Provider abstraction and resilience layer of prompt_diff_report:        *)
(*   providers/base.py        registry, resolver, client contract          *)
(*   providers/retry_utils.py the two tenacity retry decorators            *)
(*   providers/exceptions.py  the error taxonomy                           *)
(* Strings are sequences of one-character strings, so that splitting a     *)
(* model URI at its first colon is computed, not assumed.                  *)
(***************************************************************************)
EXTENDS Integers, Sequences, FiniteSets, TLC

VARIABLES REGISTRY, regLog, allocated, conns, last, thr,
          pc, fn, policy, script, attempt_number, outcome, invoked, sleeps, result,
          consulted, params, calls

vars == <<REGISTRY, regLog, allocated, conns, last, thr,
          pc, fn, policy, script, attempt_number, outcome, invoked, sleeps, result,
          consulted, params, calls>>

registryVars == <<REGISTRY, regLog, allocated, conns, last>>
paramVars == <<params>>
callVars == <<calls>>
retryVars == <<pc, fn, policy, script, attempt_number, outcome, invoked, sleeps, result,
               consulted>>

(* ------------------------------ bounds -------------------------------- *)

MaxUriLen == 3
MaxRegs == 2
MaxClients == 2

(* ------------------------------ strings ------------------------------- *)

Alphabet == {"a", ":"}

Strings(n) == UNION {[1..m -> Alphabet] : m \in 0..n}

ModelUris == Strings(MaxUriLen)

\* ':' in model_uri
Contains(s, c) == \E i \in 1..Len(s) : s[i] = c

\* s.split(c, 1) for a string that contains c: the parts before and after the
\* first occurrence of c
Split1(s, c) ==
    LET i == CHOOSE j \in 1..Len(s) : s[j] = c /\ \A h \in 1..(j - 1) : s[h] # c
    IN  <<SubSeq(s, 1, i - 1), SubSeq(s, i + 1, Len(s))>>

(* --------------------------- error taxonomy --------------------------- *)

\* exceptions.py: ProviderError is the base kind, the other two specialise it
ProviderErrorTypes == {"ProviderError", "ProviderRateLimitError", "ProviderAuthError"}

\* isinstance(exc, cls) over the taxonomy
IsInstance(type, cls) ==
    \/ type = cls
    \/ cls = "ProviderError" /\ type \in ProviderErrorTypes

(* ------------------------------ classes ------------------------------- *)

None == [t |-> "None"]
Str(s) == [t |-> "str", v |-> s]

\* Concrete client types offered to register_provider. ClientA and ClientB
\* declare the same provider key; ClientD declares an empty key; ClientE
\* declares none; ClientF declares a key that contains a colon.
ClientA == [name |-> "ClientA", hasProvider |-> TRUE, provider |-> <<"a">>]
ClientB == [name |-> "ClientB", hasProvider |-> TRUE, provider |-> <<"a">>]
ClientC == [name |-> "ClientC", hasProvider |-> TRUE, provider |-> <<"a", "a">>]
ClientD == [name |-> "ClientD", hasProvider |-> TRUE, provider |-> <<>>]
ClientE == [name |-> "ClientE", hasProvider |-> FALSE, provider |-> <<>>]
ClientF == [name |-> "ClientF", hasProvider |-> TRUE, provider |-> <<"a", ":">>]

Classes == {ClientA, ClientB, ClientC, ClientD, ClientE, ClientF}

\* getattr(cls, 'provider', None)
GetProvider(cls) == IF cls.hasProvider THEN Str(cls.provider) ELSE None

\* Python truthiness of the key: None and '' are falsy
Truthy(v) == v.t = "str" /\ v.v # <<>>

(* ------------------- _REGISTRY, an insertion-ordered dict -------------- *)

\* list(_REGISTRY)
DictKeys(d) == [i \in 1..Len(d) |-> d[i].key]

\* key in _REGISTRY
HasKey(d, k) == \E i \in 1..Len(d) : d[i].key = k

\* _REGISTRY[key]
DictGet(d, k) == d[CHOOSE i \in 1..Len(d) : d[i].key = k].cls

\* _REGISTRY[key] = cls: replaces in place when the key is present, appends
\* otherwise
DictSet(d, k, c) ==
    IF HasKey(d, k)
    THEN [i \in 1..Len(d) |-> IF d[i].key = k THEN [key |-> k, cls |-> c] ELSE d[i]]
    ELSE Append(d, [key |-> k, cls |-> c])

(* -------------------------- results of calls -------------------------- *)

Return(v) == [status |-> "return", val |-> v]
Raise(e) == [status |-> "raise", val |-> e]

ValueError(msg) == [type |-> "ValueError", msg |-> msg]

NoProviderAttr == [text |-> "Provider client must define 'provider' class attr"]
AlreadyRegistered(k, by) == [text |-> "already registered", key |-> k, by |-> by]
BadFormat == [text |-> "model_uri must be in 'provider:model' format"]
UnknownProvider(k, keys) == [text |-> "Unknown provider", key |-> k, registered |-> keys]

Done(op, arg, res, steps) ==
    [op |-> op, arg |-> arg, status |-> res.status, val |-> res.val, steps |-> steps]

NoCall == [op |-> "none", arg |-> <<>>, status |-> "none", val |-> None, steps |-> <<>>]

(* ------------------------- client construction ------------------------ *)

\* What the provider-specific _create_client does when it is invoked: it
\* returns an SDK object or raises.
CreateOutcomes == {"ok", "ProviderRateLimitError"}

\* __init__ handing back one shared instance and SDK object
ConstructShared(cls, model, create, id, connId) ==
    IF create = "ok"
    THEN Return([t |-> "client", id |-> 1, cls |-> cls, model |-> model, client |-> 1])
    ELSE Raise([type |-> create, id |-> id])

\* __init__ turning a failure of _create_client into a plain ProviderError
ConstructWrapsError(cls, model, create, id, connId) ==
    IF create = "ok"
    THEN Return([t |-> "client", id |-> id, cls |-> cls, model |-> model, client |-> connId])
    ELSE Raise([type |-> "ProviderError", id |-> id])

\* AbstractLLMClient.__init__(self, model) on the instance numbered id:
\* stores the model, then invokes _create_client once. connId numbers the
\* SDK object a successful _create_client returns.
Construct(cls, model, create, id, connId) ==
    IF create = "ok"
    THEN Return([t |-> "client", id |-> id, cls |-> cls, model |-> model, client |-> connId])
    ELSE Raise([type |-> create, id |-> id])

(* ------------------------- registry operations ------------------------ *)

\* register_provider with the occupied-key check left out
RegisterProviderOverwrite(d, cls) ==
    LET key == GetProvider(cls)
    IN  IF ~Truthy(key)
        THEN [reg |-> d, res |-> Raise(ValueError(NoProviderAttr))]
        ELSE [reg |-> DictSet(d, key.v, cls), res |-> Return(cls)]

\* register_provider accepting a repeated registration of the type the key
\* already maps to
RegisterProviderIdempotent(d, cls) ==
    LET key == GetProvider(cls)
    IN  IF ~Truthy(key)
        THEN [reg |-> d, res |-> Raise(ValueError(NoProviderAttr))]
        ELSE IF HasKey(d, key.v) /\ DictGet(d, key.v) # cls
        THEN [reg |-> d,
              res |-> Raise(ValueError(AlreadyRegistered(key.v, DictGet(d, key.v).name)))]
        ELSE [reg |-> DictSet(d, key.v, cls), res |-> Return(cls)]

\* register_provider rejecting only a missing key ("key is None"), not an
\* empty one
RegisterProviderNoneOnly(d, cls) ==
    LET key == GetProvider(cls)
    IN  IF key.t = "None"
        THEN [reg |-> d, res |-> Raise(ValueError(NoProviderAttr))]
        ELSE IF HasKey(d, key.v)
        THEN [reg |-> d,
              res |-> Raise(ValueError(AlreadyRegistered(key.v, DictGet(d, key.v).name)))]
        ELSE [reg |-> DictSet(d, key.v, cls), res |-> Return(cls)]

\* register_provider(cls) on registry d: the registry afterwards and the
\* call's result
RegisterProvider(d, cls) ==
    LET key == GetProvider(cls)
    IN  IF ~Truthy(key)
        THEN [reg |-> d, res |-> Raise(ValueError(NoProviderAttr))]
        ELSE IF HasKey(d, key.v)
        THEN [reg |-> d,
              res |-> Raise(ValueError(AlreadyRegistered(key.v, DictGet(d, key.v).name)))]
        ELSE [reg |-> DictSet(d, key.v, cls), res |-> Return(cls)]

\* resolve_client splitting at the last colon instead of the first
ResolveClientRsplit(d, model_uri, create, id, connId) ==
    IF ~Contains(model_uri, ":")
    THEN [res |-> Raise(ValueError(BadFormat)), steps |-> <<>>]
    ELSE LET i == CHOOSE j \in 1..Len(model_uri) :
                      model_uri[j] = ":" /\ \A h \in (j + 1)..Len(model_uri) : model_uri[h] # ":"
             provider_key == SubSeq(model_uri, 1, i - 1)
             model_name == SubSeq(model_uri, i + 1, Len(model_uri))
         IN  IF ~HasKey(d, provider_key)
             THEN [res |-> Raise(ValueError(UnknownProvider(provider_key, DictKeys(d)))),
                   steps |-> <<"lookup">>]
             ELSE [res |-> Construct(DictGet(d, provider_key), model_name, create, id, connId),
                   steps |-> <<"lookup", "__init__", "_create_client">>]

\* resolve_client without the format check: a URI with no colon is looked up
\* whole, with an empty model name
ResolveClientNoFormatCheck(d, model_uri, create, id, connId) ==
    LET parts == IF Contains(model_uri, ":") THEN Split1(model_uri, ":")
                 ELSE <<model_uri, <<>> >>
        provider_key == parts[1]
        model_name == parts[2]
    IN  IF ~HasKey(d, provider_key)
        THEN [res |-> Raise(ValueError(UnknownProvider(provider_key, DictKeys(d)))),
              steps |-> <<"lookup">>]
        ELSE [res |-> Construct(DictGet(d, provider_key), model_name, create, id, connId),
              steps |-> <<"lookup", "__init__", "_create_client">>]

\* resolve_client whose unknown-provider message lists the key that was
\* sought instead of the registered keys
ResolveClientListsSought(d, model_uri, create, id, connId) ==
    IF ~Contains(model_uri, ":")
    THEN [res |-> Raise(ValueError(BadFormat)), steps |-> <<>>]
    ELSE LET parts == Split1(model_uri, ":")
             provider_key == parts[1]
             model_name == parts[2]
         IN  IF ~HasKey(d, provider_key)
             THEN [res |-> Raise(ValueError(UnknownProvider(provider_key, <<provider_key>>))),
                   steps |-> <<"lookup">>]
             ELSE [res |-> Construct(DictGet(d, provider_key), model_name, create, id, connId),
                   steps |-> <<"lookup", "__init__", "_create_client">>]

\* resolve_client(model_uri) on registry d, where create is what
\* _create_client does if it is reached and id, connId number the instance
\* and SDK object that would be allocated. steps lists, in order, the
\* registry reads and construction steps the call performed.
ResolveClient(d, model_uri, create, id, connId) ==
    IF ~Contains(model_uri, ":")
    THEN [res |-> Raise(ValueError(BadFormat)), steps |-> <<>>]
    ELSE LET parts == Split1(model_uri, ":")
             provider_key == parts[1]
             model_name == parts[2]
         IN  IF ~HasKey(d, provider_key)
             THEN [res |-> Raise(ValueError(UnknownProvider(provider_key, DictKeys(d)))),
                   steps |-> <<"lookup">>]
             ELSE [res |-> Construct(DictGet(d, provider_key), model_name, create, id, connId),
                   steps |-> <<"lookup", "__init__", "_create_client">>]

(* ------------------------------ retrying ------------------------------ *)

MaxAttempts == 3
ScriptLen == MaxAttempts + 1

Values == {"ok", "retry-me"}

\* What one invocation of the wrapped operation does: it raises an error of
\* the taxonomy or returns a value.
Behaviours ==
    {[kind |-> "raise", type |-> ty, value |-> ""] : ty \in ProviderErrorTypes}
    \cup {[kind |-> "return", type |-> "", value |-> v] : v \in Values}

\* The wrapped operation: what its 1st, 2nd, ... invocation does
Scripts == [1..ScriptLen -> Behaviours]

\* The n-th invocation of the operation. An error carries the number of the
\* invocation that raised it, which tells one raised error object from another.
Invoke(scr, n) ==
    IF scr[n].kind = "raise"
    THEN Raise([type |-> scr[n].type, id |-> n])
    ELSE Return(scr[n].value)

Predicates == {{"retry-me"}, {"ok"}}
WaitChoices == {1, 2}

\* rate_limit_retry(max_attempts=n, wait_seconds=w)
rate_limit_retry(n, w) ==
    [retry |-> "retry_if_exception_type", exc_type |-> "ProviderRateLimitError",
     predicate |-> {}, max_attempts |-> n, wait_seconds |-> w, reraise |-> TRUE]

\* llm_retry_decorator(predicate, max_attempts=n, wait_seconds=w); the
\* predicate is the set of values it is true of
llm_retry_decorator(predicate, n, w) ==
    [retry |-> "retry_if_result", exc_type |-> "",
     predicate |-> predicate, max_attempts |-> n, wait_seconds |-> w, reraise |-> TRUE]

\* the decorator on AbstractLLMClient.call_with_retry
CallWithRetryMaxAttempts == 3
CallWithRetryWaitSeconds == 1
CallWithRetryPolicy == rate_limit_retry(CallWithRetryMaxAttempts, CallWithRetryWaitSeconds)

\* the predicate called on every outcome, raised errors included
ConsultsAlways(pol, out) == IF pol.retry = "retry_if_result" THEN 1 ELSE 0

\* How many times the caller's predicate is called to judge one outcome:
\* retry_if_result calls it once on a returned value and not at all on a
\* raised error; retry_if_exception_type has no predicate.
Consults(pol, out) ==
    IF pol.retry = "retry_if_result" /\ out.status = "return" THEN 1 ELSE 0

\* the retry condition under which the predicate strategy also retries
\* ProviderRateLimitError
ShouldRetryRateLimitToo(pol, out) ==
    IF pol.retry = "retry_if_exception_type"
    THEN out.status = "raise" /\ IsInstance(out.val.type, pol.exc_type)
    ELSE \/ out.status = "return" /\ out.val \in pol.predicate
         \/ out.status = "raise" /\ out.val.type = "ProviderRateLimitError"

\* the retry condition retrying every error of the taxonomy
ShouldRetryAnyProviderError(pol, out) ==
    IF pol.retry = "retry_if_exception_type"
    THEN out.status = "raise" /\ IsInstance(out.val.type, "ProviderError")
    ELSE out.status = "return" /\ out.val \in pol.predicate

\* the retry condition with the predicate's sense inverted
ShouldRetryUnlessPredicate(pol, out) ==
    IF pol.retry = "retry_if_exception_type"
    THEN out.status = "raise" /\ IsInstance(out.val.type, pol.exc_type)
    ELSE out.status = "return" /\ out.val \notin pol.predicate

\* retry=...: whether the attempt's outcome asks for another attempt.
\* retry_if_exception_type looks only at raised errors, retry_if_result only
\* at returned values.
ShouldRetry(pol, out) ==
    IF pol.retry = "retry_if_exception_type"
    THEN out.status = "raise" /\ IsInstance(out.val.type, pol.exc_type)
    ELSE out.status = "return" /\ out.val \in pol.predicate

\* the stop condition letting one attempt too many through
ShouldStopOffByOne(pol, n) == n > pol.max_attempts

\* stop=stop_after_attempt(max_attempts)
ShouldStop(pol, n) == n >= pol.max_attempts

RetryError(out) == [type |-> "RetryError", last_attempt |-> out]

\* exhaustion that always wraps the last attempt in a RetryError
ExhaustedWraps(pol, out) == Raise(RetryError(out))

\* exhaustion that hands back the last returned value
ExhaustedReturnsLast(pol, out) ==
    IF out.status = "raise" THEN Raise(out.val) ELSE Return(out.val)

\* What the wrapped call does once the attempts are used up. With
\* reraise=True the last attempt's own error is raised again; a last attempt
\* that returned has no error to raise, and RetryError is raised.
Exhausted(pol, out) ==
    IF pol.reraise /\ out.status = "raise"
    THEN Raise(out.val)
    ELSE Raise(RetryError(out))

(* ------------------------- GenerateParameters ------------------------- *)

\* how far beyond the limits of max_tokens the inputs reach
ProbeMargin == 2

IntVal(n) == [t |-> "int", v |-> n]

\* a float, held in tenths
FloatVal(tenths) == [t |-> "float", v |-> tenths]

MaxTokensFloor == 256
MaxTokensCeiling == 16384
TemperatureMaxTenths == 20
TopPMaxTenths == 10

TemperatureInputs == {None, FloatVal(0 - 1), FloatVal(7), FloatVal(TemperatureMaxTenths + 1)}
TopPInputs == {None, FloatVal(0 - 1), FloatVal(TopPMaxTenths), FloatVal(TopPMaxTenths + 1)}
MaxTokensInputs ==
    {None} \cup {IntVal(n) : n \in (0 - ProbeMargin)..(MaxTokensCeiling + ProbeMargin)}

\* temperature: float | None = Field(default=0.7, ge=0.0, le=2.0)
TemperatureOk(x) == x.t = "None" \/ (x.v >= 0 /\ x.v <= TemperatureMaxTenths)

\* top_p: float | None = Field(default=1.0, ge=0.0, le=1.0)
TopPOk(x) == x.t = "None" \/ (x.v >= 0 /\ x.v <= TopPMaxTenths)

\* the max_tokens constraint with an inclusive lower bound (ge=256)
MaxTokensOkInclusive(x) ==
    x.t = "None" \/ (x.v >= MaxTokensFloor /\ x.v <= MaxTokensCeiling)

\* max_tokens: int | None = Field(default=None, gt=256, le=16384)
MaxTokensOk(x) == x.t = "None" \/ (x.v > MaxTokensFloor /\ x.v <= MaxTokensCeiling)

\* GenerateParameters(temperature=..., top_p=..., max_tokens=...): the
\* validated record, or a ValidationError naming every field that failed
Validate(temperature, top_p, max_tokens) ==
    LET failed == {f \in {"temperature", "top_p", "max_tokens"} :
                      \/ f = "temperature" /\ ~TemperatureOk(temperature)
                      \/ f = "top_p" /\ ~TopPOk(top_p)
                      \/ f = "max_tokens" /\ ~MaxTokensOk(max_tokens)}
    IN  IF failed = {}
        THEN Return([temperature |-> temperature, top_p |-> top_p,
                     max_tokens |-> max_tokens])
        ELSE Raise([type |-> "ValidationError", fields |-> failed])

NoParameters == [status |-> "none", val |-> None, args |-> None]

(* ------------------------------- state -------------------------------- *)

NThreads == 2
Threads == 1..NThreads

ThreadIdle == [pc |-> "idle", cls |-> ClientE, res |-> NoCall]

NoOutcome == [status |-> "none", val |-> None]
NoPolicy == [retry |-> "none", exc_type |-> "", predicate |-> {}, max_attempts |-> 0,
             wait_seconds |-> 0, reraise |-> FALSE]

NCallers == 2
Callers == 1..NCallers

CallIdle == [pc |-> "idle", fn |-> "none", attempt_number |-> 0, invoked |-> 0,
             outcome |-> NoOutcome, result |-> NoOutcome]

Init ==
    /\ REGISTRY = <<>>
    /\ regLog = <<>>
    /\ allocated = 0
    /\ conns = 0
    /\ last = NoCall
    /\ thr = [t \in Threads |-> ThreadIdle]
    /\ pc = "idle"
    /\ fn = "none"
    /\ policy = NoPolicy
    /\ script = <<>>
    /\ attempt_number = 0
    /\ outcome = NoOutcome
    /\ invoked = 0
    /\ sleeps = <<>>
    /\ result = NoOutcome
    /\ consulted = 0
    /\ params = NoParameters
    /\ calls = [c \in Callers |-> CallIdle]

(* ------------------- registry and resolver, sequential ----------------- *)

\* one whole call of register_provider(cls)
register_provider(cls) ==
    /\ Len(regLog) < MaxRegs
    /\ \E r \in {RegisterProvider(REGISTRY, cls)} :
          /\ REGISTRY' = r.reg
          /\ last' = Done("register_provider", cls, r.res, <<>>)
    /\ regLog' = Append(regLog, cls)
    /\ UNCHANGED <<paramVars, callVars, allocated, conns, thr, retryVars>>

\* one whole call of resolve_client(model_uri)
resolve_client(model_uri, create) ==
    \E r \in {ResolveClient(REGISTRY, model_uri, create, allocated + 1, conns + 1)} :
       \E constructs \in {Len(r.steps) > 1} :
          /\ constructs => allocated < MaxClients
          \* _create_client's behaviour is an input only when it is invoked
          /\ ~constructs => create = "ok"
          /\ last' = Done("resolve_client", model_uri, r.res, r.steps)
          /\ allocated' = IF constructs THEN allocated + 1 ELSE allocated
          /\ conns' = IF r.res.status = "return" THEN conns + 1 ELSE conns
          /\ UNCHANGED <<paramVars, callVars, REGISTRY, regLog, thr, retryVars>>

Next ==
    \/ \E cls \in Classes : register_provider(cls)
    \/ \E model_uri \in ModelUris, create \in CreateOutcomes :
          resolve_client(model_uri, create)

Spec == Init /\ [][Next]_vars

(* --------------------------- a retried call --------------------------- *)

\* The caller invokes a wrapped operation: call_with_retry, or an operation
\* wrapped by one of the two decorators with the caller's parameters. scr is
\* what the operation underneath (generate, for call_with_retry) will do.
Call(f, pol, scr) ==
    /\ pc = "idle"
    /\ fn' = f
    /\ policy' = pol
    /\ script' = scr
    /\ attempt_number' = 1
    /\ outcome' = NoOutcome
    /\ invoked' = 0
    /\ sleeps' = <<>>
    /\ result' = NoOutcome
    /\ consulted' = 0
    /\ pc' = "attempt"
    /\ UNCHANGED <<paramVars, callVars, registryVars, thr>>

\* the wrapped operation is invoked and its outcome recorded
DoAttempt ==
    /\ pc = "attempt"
    /\ invoked' = invoked + 1
    /\ outcome' = Invoke(script, invoked + 1)
    /\ pc' = "iter"
    /\ UNCHANGED <<paramVars, callVars, registryVars, thr, fn, policy, script, attempt_number,
                   sleeps, result, consulted>>

\* no retry is asked for: the attempt's outcome is the call's outcome
Finish ==
    /\ pc = "iter"
    /\ consulted' = consulted + Consults(policy, outcome)
    /\ ~ShouldRetry(policy, outcome)
    /\ result' = outcome
    /\ pc' = "done"
    /\ UNCHANGED <<paramVars, callVars, registryVars, thr, fn, policy, script, attempt_number, outcome,
                   invoked, sleeps>>

\* giving up only after one more wait
GiveUpAfterSleep ==
    /\ pc = "iter"
    /\ consulted' = consulted + Consults(policy, outcome)
    /\ ShouldRetry(policy, outcome)
    /\ ShouldStop(policy, attempt_number)
    /\ sleeps' = Append(sleeps, policy.wait_seconds)
    /\ result' = Exhausted(policy, outcome)
    /\ pc' = "done"
    /\ UNCHANGED <<paramVars, callVars, registryVars, thr, fn, policy, script,
                   attempt_number, outcome, invoked>>

\* a retry is asked for and the attempts are used up
GiveUp ==
    /\ pc = "iter"
    /\ consulted' = consulted + Consults(policy, outcome)
    /\ ShouldRetry(policy, outcome)
    /\ ShouldStop(policy, attempt_number)
    /\ result' = Exhausted(policy, outcome)
    /\ pc' = "done"
    /\ UNCHANGED <<paramVars, callVars, registryVars, thr, fn, policy, script, attempt_number, outcome,
                   invoked, sleeps>>

\* a retry is asked for and attempts remain: wait, then attempt again
DoSleep ==
    /\ pc = "iter"
    /\ consulted' = consulted + Consults(policy, outcome)
    /\ ShouldRetry(policy, outcome)
    /\ ~ShouldStop(policy, attempt_number)
    /\ sleeps' = Append(sleeps, policy.wait_seconds)
    /\ attempt_number' = attempt_number + 1
    /\ outcome' = NoOutcome
    /\ pc' = "attempt"
    /\ UNCHANGED <<paramVars, callVars, registryVars, thr, fn, policy, script, invoked, result>>

\* the caller has the call's outcome; the call's own state is gone
Leave ==
    /\ pc = "done"
    /\ pc' = "idle"
    /\ fn' = "none"
    /\ policy' = NoPolicy
    /\ script' = <<>>
    /\ attempt_number' = 0
    /\ outcome' = NoOutcome
    /\ invoked' = 0
    /\ sleeps' = <<>>
    /\ result' = NoOutcome
    /\ consulted' = 0
    /\ UNCHANGED <<paramVars, callVars, registryVars, thr>>

\* AbstractLLMClient.call_with_retry(messages, params): generate under the
\* decorator's fixed policy
call_with_retry ==
    /\ pc = "idle"
    /\ \E scr \in Scripts : Call("call_with_retry", CallWithRetryPolicy, scr)

\* a call of an operation a caller wrapped with rate_limit_retry(...)
CallRateLimitRetry ==
    /\ pc = "idle"
    /\ \E n \in 1..MaxAttempts, w \in WaitChoices, scr \in Scripts :
          Call("rate_limit_retry", rate_limit_retry(n, w), scr)

\* a call of an operation a caller wrapped with llm_retry_decorator(...)
CallLlmRetryDecorator ==
    /\ pc = "idle"
    /\ \E p \in Predicates, n \in 1..MaxAttempts, w \in WaitChoices, scr \in Scripts :
          Call("llm_retry_decorator", llm_retry_decorator(p, n, w), scr)

NextRetry ==
    \/ call_with_retry
    \/ CallRateLimitRetry
    \/ CallLlmRetryDecorator
    \/ DoAttempt
    \/ Finish
    \/ GiveUp
    \/ DoSleep
    \/ Leave

SpecRetry == Init /\ [][NextRetry]_vars

(* ------------- register_provider run by concurrent threads ------------ *)

\* Thread t enters register_provider(cls): lines 65-67, which read only the
\* class. A class with no usable key fails here.
RegisterBegin(t, cls) ==
    /\ thr[t].pc = "idle"
    /\ thr' = [thr EXCEPT ![t] =
                  IF ~Truthy(GetProvider(cls))
                  THEN [pc |-> "done", cls |-> cls,
                        res |-> Done("register_provider", cls,
                                     Raise(ValueError(NoProviderAttr)), <<>>)]
                  ELSE [pc |-> "check", cls |-> cls, res |-> NoCall]]
    /\ UNCHANGED <<paramVars, callVars, registryVars, retryVars>>

\* Thread t evaluates "key in _REGISTRY" (lines 68-69)
RegisterCheck(t) ==
    /\ thr[t].pc = "check"
    /\ LET cls == thr[t].cls
           key == cls.provider
       IN  thr' = [thr EXCEPT ![t] =
                      IF HasKey(REGISTRY, key)
                      THEN [pc |-> "done", cls |-> cls,
                            res |-> Done("register_provider", cls,
                                         Raise(ValueError(AlreadyRegistered(
                                             key, DictGet(REGISTRY, key).name))), <<>>)]
                      ELSE [pc |-> "write", cls |-> cls, res |-> NoCall]]
    /\ UNCHANGED <<paramVars, callVars, registryVars, retryVars>>

\* Thread t executes "_REGISTRY[key] = cls" and returns (lines 70-71)
RegisterWrite(t) ==
    /\ thr[t].pc = "write"
    /\ REGISTRY' = DictSet(REGISTRY, thr[t].cls.provider, thr[t].cls)
    /\ thr' = [thr EXCEPT ![t] =
                  [pc |-> "done", cls |-> thr[t].cls,
                   res |-> Done("register_provider", thr[t].cls, Return(thr[t].cls), <<>>)]]
    /\ UNCHANGED <<paramVars, callVars, regLog, allocated, conns, last, retryVars>>

NextConc ==
    \/ \E t \in Threads, cls \in Classes : RegisterBegin(t, cls)
    \/ \E t \in Threads : RegisterCheck(t)
    \/ \E t \in Threads : RegisterWrite(t)

SpecConc == Init /\ [][NextConc]_vars

(* ----------------------- building the parameters ---------------------- *)

\* GenerateParameters(temperature=..., top_p=..., max_tokens=...)
GenerateParameters(temperature, top_p, max_tokens) ==
    /\ \E r \in {Validate(temperature, top_p, max_tokens)} :
          params' = [status |-> r.status, val |-> r.val,
                     args |-> [temperature |-> temperature, top_p |-> top_p,
                               max_tokens |-> max_tokens]]
    /\ UNCHANGED <<registryVars, thr, retryVars, callVars>>

\* the caller drops the record, or has seen the ValidationError
DropParameters ==
    /\ params.status # "none"
    /\ params' = NoParameters
    /\ UNCHANGED <<registryVars, thr, retryVars, callVars>>

NextParams ==
    \/ /\ params.status = "none"
       /\ \E temperature \in TemperatureInputs, top_p \in TopPInputs,
             max_tokens \in MaxTokensInputs :
             GenerateParameters(temperature, top_p, max_tokens)
    \/ DropParameters

SpecParams == Init /\ [][NextParams]_vars

(* ------------- wrapped calls in flight on one client at once ----------- *)

\* llm_retry_decorator's defaults
LlmRetryDefaultMaxAttempts == 5
LlmRetryDefaultWaitSeconds == 1

\* The two wrapped operations the callers share: call_with_retry, and an
\* operation wrapped by llm_retry_decorator(predicate) with its defaults.
PolicyOf(f) ==
    IF f = "call_with_retry" THEN CallWithRetryPolicy
    ELSE llm_retry_decorator({"retry-me"}, LlmRetryDefaultMaxAttempts,
                             LlmRetryDefaultWaitSeconds)

RECURSIVE SumAttempts(_, _)
SumAttempts(cs, n) == IF n = 0 THEN 0 ELSE cs[n].attempt_number + SumAttempts(cs, n - 1)

\* one attempt counter kept on the shared decorator and advanced by every call
AttemptNumberShared(cs, c) == SumAttempts(cs, NCallers)

\* The attempt number the stop condition is given: the one of the call's own
\* retry state, which each call creates afresh.
AttemptNumberOf(cs, c) == cs[c].attempt_number

\* caller c invokes the wrapped operation f
CallerBegin(c, f) ==
    /\ calls[c].pc = "idle"
    /\ calls' = [calls EXCEPT ![c] =
                    [pc |-> "attempt", fn |-> f, attempt_number |-> 1, invoked |-> 0,
                     outcome |-> NoOutcome, result |-> NoOutcome]]
    /\ UNCHANGED <<registryVars, thr, retryVars, paramVars>>

\* the operation underneath runs for caller c and does b
CallerAttempt(c, b) ==
    /\ calls[c].pc = "attempt"
    /\ calls' = [calls EXCEPT ![c].pc = "iter",
                              ![c].invoked = @ + 1,
                              ![c].outcome =
                                  IF b.kind = "raise"
                                  THEN Raise([type |-> b.type, id |-> calls[c].invoked + 1])
                                  ELSE Return(b.value)]
    /\ UNCHANGED <<registryVars, thr, retryVars, paramVars>>

\* no retry is asked for: c's call ends with the attempt's outcome
CallerFinish(c) ==
    /\ calls[c].pc = "iter"
    /\ ~ShouldRetry(PolicyOf(calls[c].fn), calls[c].outcome)
    /\ calls' = [calls EXCEPT ![c].pc = "done", ![c].result = calls[c].outcome]
    /\ UNCHANGED <<registryVars, thr, retryVars, paramVars>>

\* a retry is asked for and c's attempts are used up
CallerGiveUp(c) ==
    /\ calls[c].pc = "iter"
    /\ ShouldRetry(PolicyOf(calls[c].fn), calls[c].outcome)
    /\ ShouldStop(PolicyOf(calls[c].fn), AttemptNumberOf(calls, c))
    /\ calls' = [calls EXCEPT ![c].pc = "done",
                              ![c].result = Exhausted(PolicyOf(calls[c].fn),
                                                      calls[c].outcome)]
    /\ UNCHANGED <<registryVars, thr, retryVars, paramVars>>

\* a retry is asked for and c has attempts left: c sleeps, then attempts again
CallerSleep(c) ==
    /\ calls[c].pc = "iter"
    /\ ShouldRetry(PolicyOf(calls[c].fn), calls[c].outcome)
    /\ ~ShouldStop(PolicyOf(calls[c].fn), AttemptNumberOf(calls, c))
    /\ calls' = [calls EXCEPT ![c].pc = "attempt",
                              ![c].attempt_number = @ + 1,
                              ![c].outcome = NoOutcome]
    /\ UNCHANGED <<registryVars, thr, retryVars, paramVars>>

\* c has its call's outcome and may call again
CallerLeave(c) ==
    /\ calls[c].pc = "done"
    /\ calls' = [calls EXCEPT ![c] = CallIdle]
    /\ UNCHANGED <<registryVars, thr, retryVars, paramVars>>

NextCalls ==
    \/ \E c \in Callers, f \in {"call_with_retry", "llm_retry_decorator"} : CallerBegin(c, f)
    \/ \E c \in Callers, b \in Behaviours : CallerAttempt(c, b)
    \/ \E c \in Callers : CallerFinish(c)
    \/ \E c \in Callers : CallerGiveUp(c)
    \/ \E c \in Callers : CallerSleep(c)
    \/ \E c \in Callers : CallerLeave(c)

SpecCalls == Init /\ [][NextCalls]_vars

(* ===================== registry and resolver claims ==================== *)

\* the provider key a class declares, when it declares a usable one
DeclaresKey(cls, k) == cls.hasProvider /\ cls.provider = k /\ k # <<>>

\* the position in regLog of the first register_provider call whose class
\* declares key k
FirstCallFor(k) ==
    CHOOSE i \in 1..Len(regLog) :
        DeclaresKey(regLog[i], k) /\ \A h \in 1..(i - 1) : ~DeclaresKey(regLog[h], k)

\* the keys declared by the classes of regLog, each once, in the order of
\* their first register_provider call
RECURSIVE KeysInCallOrder(_)
KeysInCallOrder(n) ==
    IF n = 0 THEN <<>>
    ELSE LET c == regLog[n]
             before == KeysInCallOrder(n - 1)
         IN  IF c.hasProvider /\ c.provider # <<>>
                /\ \A h \in 1..(n - 1) : ~DeclaresKey(regLog[h], c.provider)
             THEN Append(before, c.provider)
             ELSE before

\* a step of resolve_client: it sets last to a resolve_client result and, unlike
\* register_provider, records nothing in regLog
ResolveStep == last'.op = "resolve_client" /\ regLog' = regLog /\ thr' = thr /\ pc' = pc

\* C1: each key of the Registry occurs once and is mapped to the type of the
\* first register_provider call made under that key; a register_provider call
\* under a key some earlier call already took fails with a ValueError.
C1_FirstRegistrationKept ==
    /\ \A i, j \in 1..Len(REGISTRY) : REGISTRY[i].key = REGISTRY[j].key => i = j
    /\ \A i \in 1..Len(REGISTRY) :
          /\ \E h \in 1..Len(regLog) : DeclaresKey(regLog[h], REGISTRY[i].key)
          /\ REGISTRY[i].cls = regLog[FirstCallFor(REGISTRY[i].key)]
    /\ \A h \in 1..Len(regLog) :
          (regLog[h].hasProvider /\ regLog[h].provider # <<>>)
             => HasKey(REGISTRY, regLog[h].provider)
    /\ ( /\ last.op = "register_provider"
         /\ \E h \in 1..(Len(regLog) - 1) :
               last.arg.hasProvider /\ DeclaresKey(regLog[h], last.arg.provider) )
       => (last.status = "raise" /\ last.val.type = "ValueError")

\* ClientA was registered, then ClientB under the same key: the second call
\* raised and the key still maps to ClientA
C1_Witness ==
    /\ Len(regLog) >= 2
    /\ regLog[1] = ClientA
    /\ last.op = "register_provider"
    /\ last.arg = ClientB
    /\ last.status = "raise"
    /\ HasKey(REGISTRY, <<"a">>)
    /\ DictGet(REGISTRY, <<"a">>) = ClientA

\* C5: a resolve_client call on key ++ ":" ++ rest, where key has no colon and
\* is registered, never fails in the resolver itself, and when construction
\* succeeds it returns a client of the type registered under key whose model
\* is rest, colons included.
C5_ModelNameIsRestAfterFirstColon ==
    \A i \in 1..Len(REGISTRY) :
       LET key == REGISTRY[i].key
           rest == SubSeq(last.arg, Len(key) + 2, Len(last.arg))
       IN  ( /\ last.op = "resolve_client"
             /\ ~Contains(key, ":")
             /\ last.arg = key \o <<":">> \o rest )
           => /\ last.status = "return" =>
                    /\ last.val.t = "client"
                    /\ last.val.cls = REGISTRY[i].cls
                    /\ last.val.model = rest
              /\ last.status = "raise" => last.val.type \in ProviderErrorTypes
              /\ last.steps = <<"lookup", "__init__", "_create_client">>

\* "a::" resolved with "a" registered: the model name is ":"
C5_Witness ==
    /\ last.op = "resolve_client"
    /\ last.arg = <<"a", ":", ":">>
    /\ last.status = "return"
    /\ last.val.model = <<":">>
    /\ HasKey(REGISTRY, <<"a", ":">>)

\* C6: a resolve_client call on a URI without a colon raises the format
\* ValueError, performs no registry lookup and no construction step, and
\* leaves the Registry and the allocation counters as they were.
C6_NoColonFailsUntouched ==
    [][(ResolveStep /\ ~Contains(last'.arg, ":"))
          => /\ last'.status = "raise"
             /\ last'.val = ValueError(BadFormat)
             /\ last'.steps = <<>>
             /\ REGISTRY' = REGISTRY
             /\ allocated' = allocated
             /\ conns' = conns]_vars

\* "aa" resolved while "aa" is a registered key
C6_Witness ==
    /\ last.op = "resolve_client"
    /\ last.arg = <<"a", "a">>
    /\ last.status = "raise"
    /\ HasKey(REGISTRY, <<"a", "a">>)
    /\ HasKey(REGISTRY, <<"a">>)

\* C7: a resolve_client call whose key segment is not registered raises the
\* unknown-provider ValueError naming that key and listing the registered
\* keys, each once, in registration order; it reads the Registry once,
\* constructs nothing and changes nothing.
C7_UnknownProviderListsKeys ==
    [][( /\ ResolveStep
         /\ \E i \in 1..Len(last'.arg) :
               /\ last'.arg[i] = ":"
               /\ \A h \in 1..(i - 1) : last'.arg[h] # ":"
               /\ \A j \in 1..Len(REGISTRY) : REGISTRY[j].key # SubSeq(last'.arg, 1, i - 1) )
          => /\ last'.status = "raise"
             /\ last'.val.type = "ValueError"
             /\ last'.val.msg.text = "Unknown provider"
             /\ ~Contains(last'.val.msg.key, ":")
             /\ last'.arg = last'.val.msg.key \o <<":">>
                               \o SubSeq(last'.arg, Len(last'.val.msg.key) + 2, Len(last'.arg))
             /\ last'.val.msg.registered = KeysInCallOrder(Len(regLog))
             /\ last'.steps = <<"lookup">>
             /\ REGISTRY' = REGISTRY
             /\ allocated' = allocated
             /\ conns' = conns]_vars

\* "a:a" resolved while only the keys "aa" and "a:" are registered, in that
\* order
C7_Witness ==
    /\ last.op = "resolve_client"
    /\ last.arg = <<"a", ":", "a">>
    /\ last.status = "raise"
    /\ last.val.type = "ValueError"
    /\ last.val.msg.text = "Unknown provider"
    /\ last.val.msg.registered = << <<"a", "a">>, <<"a", ":">> >>

(* ============================ retry claims ============================= *)

IsRateLimit(b) == b.kind = "raise" /\ b.type = "ProviderRateLimitError"

\* how many invocations at the start of the script raise ProviderRateLimitError
LeadingRateLimits ==
    CHOOSE k \in 0..Len(script) :
        /\ \A i \in 1..k : IsRateLimit(script[i])
        /\ k = Len(script) \/ ~IsRateLimit(script[k + 1])

Retried(b) == b.kind = "return" /\ b.value \in policy.predicate

\* how many invocations at the start of the script return a value the
\* predicate is true of
LeadingRetried ==
    CHOOSE k \in 0..Len(script) :
        /\ \A i \in 1..k : Retried(script[i])
        /\ k = Len(script) \/ ~Retried(script[k + 1])

\* C2: under the error-kind strategy with max_attempts = N, an operation that
\* raises ProviderRateLimitError k times and then returns v ends, if k < N,
\* in the return of v after k+1 invocations and, if k >= N, in a raised
\* ProviderRateLimitError after N invocations.
C2_RateLimitRetryCount ==
    (pc = "done" /\ policy.retry = "retry_if_exception_type")
    => LET k == LeadingRateLimits
           N == policy.max_attempts
       IN  (k < Len(script) /\ script[k + 1].kind = "return")
           => IF k < N
              THEN /\ result.status = "return"
                   /\ result.val = script[k + 1].value
                   /\ invoked = k + 1
              ELSE /\ result.status = "raise"
                   /\ result.val.type = "ProviderRateLimitError"
                   /\ invoked = N

\* two rate-limit failures, then "ok", with max_attempts = 3
C2_Witness ==
    /\ pc = "done"
    /\ fn = "rate_limit_retry"
    /\ policy.max_attempts = 3
    /\ LeadingRateLimits = 2
    /\ invoked = 3
    /\ result.status = "return"
    /\ result.val = "ok"

\* C3: under the error-kind strategy, once an invocation within the budget
\* raises an error that is not ProviderRateLimitError (earlier ones having
\* raised ProviderRateLimitError), no later invocation happens and the call
\* ends raising that very error.
C3_OtherErrorsNotRetried ==
    policy.retry = "retry_if_exception_type"
    => LET j == LeadingRateLimits + 1
       IN  (j <= policy.max_attempts /\ j <= Len(script) /\ script[j].kind = "raise")
           => /\ invoked <= j
              /\ pc = "done" =>
                    /\ invoked = j
                    /\ result.status = "raise"
                    /\ result.val = [type |-> script[j].type, id |-> j]

\* a rate-limit failure, then ProviderAuthError on the second attempt of three
C3_Witness ==
    /\ pc = "done"
    /\ policy.retry = "retry_if_exception_type"
    /\ policy.max_attempts = 3
    /\ LeadingRateLimits = 1
    /\ script[2].kind = "raise"
    /\ script[2].type = "ProviderAuthError"
    /\ invoked = 2
    /\ result.status = "raise"
    /\ result.val.type = "ProviderAuthError"

\* C4: under the predicate strategy with max_attempts = N, an operation whose
\* first k returns satisfy the predicate and whose next invocation returns a
\* value that does not, k < N, ends in the return of that value after k+1
\* invocations (k = 0: after one).
C4_PredicateRetryCount ==
    (pc = "done" /\ policy.retry = "retry_if_result")
    => LET k == LeadingRetried
       IN  (k < policy.max_attempts /\ k < Len(script) /\ script[k + 1].kind = "return")
           => /\ result.status = "return"
              /\ result.val = script[k + 1].value
              /\ invoked = k + 1

\* "retry-me" twice, then "ok", predicate value = "retry-me", max_attempts = 3
C4_Witness ==
    /\ pc = "done"
    /\ fn = "llm_retry_decorator"
    /\ policy.predicate = {"retry-me"}
    /\ policy.max_attempts = 3
    /\ LeadingRetried = 2
    /\ invoked = 3
    /\ result.status = "return"
    /\ result.val = "ok"

\* C9: call_with_retry runs generate under the rate-limit strategy with 3
\* attempts and waits of 1 second: generate is invoked at most 3 times; a
\* returned text is the text of the first generate call that returned; when
\* the first 3 generate calls raise ProviderRateLimitError the call raises
\* the error of the third.
C9_CallWithRetry ==
    fn = "call_with_retry"
    => /\ policy.retry = "retry_if_exception_type"
       /\ policy.exc_type = "ProviderRateLimitError"
       /\ invoked <= 3
       /\ \A i \in 1..Len(sleeps) : sleeps[i] = 1
       /\ pc = "done" =>
             /\ result.status = "return" =>
                   /\ script[invoked].kind = "return"
                   /\ result.val = script[invoked].value
                   /\ \A i \in 1..(invoked - 1) : script[i].kind = "raise"
             /\ (\A i \in 1..3 : IsRateLimit(script[i])) =>
                   /\ invoked = 3
                   /\ result.status = "raise"
                   /\ result.val = [type |-> "ProviderRateLimitError", id |-> 3]

\* three rate-limit failures in a row
C9_Witness ==
    /\ pc = "done"
    /\ fn = "call_with_retry"
    /\ LeadingRateLimits >= 3
    /\ invoked = 3
    /\ Len(sleeps) = 2
    /\ result.status = "raise"

\* C10: under the predicate strategy with max_attempts = N, when the first N
\* invocations all return values satisfying the predicate the call ends
\* after N invocations in a raised failure; a value satisfying the predicate
\* is never returned to the caller.
C10_PredicateExhaustionRaises ==
    (pc = "done" /\ policy.retry = "retry_if_result")
    => /\ LeadingRetried >= policy.max_attempts =>
             /\ invoked = policy.max_attempts
             /\ result.status = "raise"
             /\ result.val.type = "RetryError"
       /\ result.status = "return" => result.val \notin policy.predicate

\* "retry-me" on both of two attempts
C10_Witness ==
    /\ pc = "done"
    /\ fn = "llm_retry_decorator"
    /\ policy.max_attempts = 2
    /\ LeadingRetried >= 2
    /\ invoked = 2
    /\ result.status = "raise"

(* ===================== concurrent registration claim =================== *)

\* C8: of the concurrent register_provider calls made under one provider key,
\* at most one returns, and once all of them have ended exactly one has
\* returned and the Registry holds its type.
C8_FirstWriterWins ==
    \A cls \in Classes :
       Truthy(GetProvider(cls)) =>
          LET k == cls.provider
              under == {t \in Threads : thr[t].pc # "idle" /\ DeclaresKey(thr[t].cls, k)}
              ended == {t \in under : thr[t].pc = "done"}
              winners == {t \in ended : thr[t].res.status = "return"}
          IN  /\ Cardinality(winners) <= 1
              /\ (under # {} /\ ended = under) => Cardinality(winners) = 1
              /\ \A t \in winners : DictGet(REGISTRY, k) = thr[t].cls

(* ================= further registry and resolver claims ================ *)

\* a step of register_provider: the only step that records its class in regLog
RegisterStep == Len(regLog') = Len(regLog) + 1

\* C11: a register_provider call with the very type its key already maps to
\* raises the already-registered ValueError and leaves the Registry as it was.
C11_SameTypeTwiceConflicts ==
    [][( /\ RegisterStep
         /\ last'.arg.hasProvider
         /\ HasKey(REGISTRY, last'.arg.provider)
         /\ DictGet(REGISTRY, last'.arg.provider) = last'.arg )
       => /\ last'.status = "raise"
          /\ last'.val.type = "ValueError"
          /\ last'.val.msg.text = "already registered"
          /\ REGISTRY' = REGISTRY]_vars

\* ClientA registered twice in a row
C11_Witness ==
    /\ regLog = <<ClientA, ClientA>>
    /\ last.op = "register_provider"
    /\ last.status = "raise"
    /\ REGISTRY = <<[key |-> <<"a">>, cls |-> ClientA]>>

\* C12: a register_provider call with a type whose provider key is missing or
\* empty raises the configuration ValueError and leaves the Registry as it
\* was; no Registry entry ever has the empty key; a resolve_client call on a
\* URI that starts with a colon raises the unknown-provider ValueError.
C12_EmptyKeyNeverRegistered ==
    [][/\ (RegisterStep /\ (~last'.arg.hasProvider \/ last'.arg.provider = <<>>))
          => /\ last'.status = "raise"
             /\ last'.val = ValueError(NoProviderAttr)
             /\ REGISTRY' = REGISTRY
       /\ \A i \in 1..Len(REGISTRY') : REGISTRY'[i].key # <<>>
       /\ (ResolveStep /\ Len(last'.arg) > 0 /\ last'.arg[1] = ":")
          => /\ last'.status = "raise"
             /\ last'.val.type = "ValueError"
             /\ last'.val.msg.text = "Unknown provider"
             /\ last'.val.msg.key = <<>>]_vars

\* ":a" resolved after ClientD, whose key is empty, was offered for
\* registration
C12_Witness ==
    /\ \E i \in 1..Len(regLog) : regLog[i] = ClientD
    /\ last.op = "resolve_client"
    /\ last.arg = <<":", "a">>
    /\ last.status = "raise"

\* C13: the Registry starts empty; no step removes, moves or remaps an entry;
\* the Registry changes only in a register_provider call that returns, which
\* appends one entry under a key that was not present.
C13_AppendOnly ==
    /\ REGISTRY = <<>>
    /\ [][/\ Len(REGISTRY') >= Len(REGISTRY)
          /\ \A i \in 1..Len(REGISTRY) : REGISTRY'[i] = REGISTRY[i]
          /\ REGISTRY' # REGISTRY
             => /\ RegisterStep
                /\ last'.status = "return"
                /\ ~HasKey(REGISTRY, last'.arg.provider)
                /\ REGISTRY' = Append(REGISTRY, [key |-> last'.arg.provider,
                                                 cls |-> last'.arg])]_vars

\* a second type offered under a key that is taken, with two keys registered
C13_Witness ==
    /\ Len(REGISTRY) >= 1
    /\ Len(regLog) > Len(REGISTRY)
    /\ last.op = "register_provider"
    /\ last.status = "raise"
    /\ last.arg.hasProvider
    /\ HasKey(REGISTRY, last.arg.provider)
    /\ DictGet(REGISTRY, last.arg.provider) # last.arg

\* C15: a resolve_client call that returns has run __init__ and
\* _create_client once each and returns an instance and an SDK object that no
\* earlier call returned, also when the previous call resolved the same URI;
\* the Registry still holds the types only.
C15_FreshClientPerResolve ==
    [][(ResolveStep /\ last'.status = "return")
       => /\ last'.steps = <<"lookup", "__init__", "_create_client">>
          /\ last'.val.id > allocated
          /\ last'.val.client > conns
          /\ allocated' = allocated + 1
          /\ conns' = conns + 1
          /\ (last.op = "resolve_client" /\ last.status = "return")
             => /\ last'.val.id # last.val.id
                /\ last'.val.client # last.val.client
          /\ REGISTRY' = REGISTRY
          /\ \A i \in 1..Len(REGISTRY') : REGISTRY'[i].cls \in Classes]_vars

\* the second of two resolve_client calls that returned
C15_Witness ==
    /\ last.op = "resolve_client"
    /\ last.status = "return"
    /\ last.arg = <<"a", ":", "a">>
    /\ last.val.id = 2
    /\ last.val.client = 2

\* C16: when _create_client raises, resolve_client has invoked it once, raises
\* that error itself, returns no client, and leaves the Registry and the
\* count of SDK objects as they were.
C16_ConstructionFailurePropagates ==
    [][(ResolveStep /\ last'.status = "raise" /\ Len(last'.steps) > 1)
       => /\ last'.steps = <<"lookup", "__init__", "_create_client">>
          /\ last'.val.type \in CreateOutcomes \ {"ok"}
          /\ last'.val.id = allocated + 1
          /\ allocated' = allocated + 1
          /\ conns' = conns
          /\ REGISTRY' = REGISTRY]_vars

\* _create_client raised ProviderRateLimitError for "a:a"
C16_Witness ==
    /\ last.op = "resolve_client"
    /\ last.arg = <<"a", ":", "a">>
    /\ last.status = "raise"
    /\ last.val.type = "ProviderRateLimitError"
    /\ last.steps = <<"lookup", "__init__", "_create_client">>

(* ======================= GenerateParameters claim ====================== *)

\* C14: GenerateParameters rejects max_tokens exactly when it is an integer
\* that is not above 256 or is above 16384; an absent max_tokens is accepted;
\* the record is built exactly when no field is rejected, and then holds the
\* max_tokens given.
C14_MaxTokensRange ==
    params.status # "none"
    => LET mt == params.args.max_tokens
           bad == IF params.status = "raise" THEN params.val.fields ELSE {}
           inRange == mt.t = "None" \/ (mt.v > 256 /\ mt.v <= 16384)
       IN  /\ ("max_tokens" \in bad) <=> ~inRange
           /\ (params.status = "return") <=> (bad = {})
           /\ params.status = "return" => params.val.max_tokens = mt

\* max_tokens = 256, with the other fields valid, is rejected
C14_Witness ==
    /\ params.status = "raise"
    /\ params.args.max_tokens = IntVal(256)
    /\ params.val.fields = {"max_tokens"}

(* ========================= further retry claims ======================== *)

\* C17: in a call under either strategy every wait lasts wait_seconds and
\* lies between two attempts: about to attempt, the call has waited once per
\* earlier invocation; judging an outcome or ended, it has waited once less
\* than it has invoked. So there is no wait before the first attempt and none
\* after the last, however the call ends.
C17_WaitsOnlyBetweenAttempts ==
    pc # "idle"
    => /\ \A i \in 1..Len(sleeps) : sleeps[i] = policy.wait_seconds
       /\ pc = "attempt" => Len(sleeps) = invoked
       /\ pc \in {"iter", "done"} => Len(sleeps) = invoked - 1

\* an exhausted call of three attempts with waits of 2 seconds
C17_Witness ==
    /\ pc = "done"
    /\ policy.max_attempts = 3
    /\ policy.wait_seconds = 2
    /\ invoked = 3
    /\ sleeps = <<2, 2>>
    /\ result.status = "raise"

\* C19: under the predicate strategy, once an invocation within the budget
\* raises (earlier ones having returned values the predicate is true of), no
\* later invocation happens, the call ends raising that very error, and the
\* predicate has been called for the earlier returns only.
C19_PredicateRetryPropagatesErrors ==
    policy.retry = "retry_if_result"
    => LET j == LeadingRetried + 1
       IN  (j <= policy.max_attempts /\ j <= Len(script) /\ script[j].kind = "raise")
           => /\ invoked <= j
              /\ consulted <= j - 1
              /\ pc = "done" =>
                    /\ invoked = j
                    /\ consulted = j - 1
                    /\ result.status = "raise"
                    /\ result.val = [type |-> script[j].type, id |-> j]

\* "retry-me", then ProviderRateLimitError on the second attempt of three
C19_Witness ==
    /\ pc = "done"
    /\ fn = "llm_retry_decorator"
    /\ policy.max_attempts = 3
    /\ policy.predicate = {"retry-me"}
    /\ LeadingRetried = 1
    /\ script[2].kind = "raise"
    /\ script[2].type = "ProviderRateLimitError"
    /\ invoked = 2
    /\ result.status = "raise"

(* ========================= attempt budget claim ======================== *)

\* C18: every call counts its own attempts from 1 and has the whole of
\* max_attempts: it never invokes the operation more than max_attempts times,
\* and it gives up (ends while a retry is still asked for) only after
\* max_attempts invocations of its own, whatever the other calls on the
\* client, finished or in flight, have used.
C18_BudgetIsPerCall ==
    \A c \in Callers :
       calls[c].pc # "idle"
       => LET N == PolicyOf(calls[c].fn).max_attempts
              gaveUp == /\ calls[c].pc = "done"
                        /\ \/ /\ calls[c].fn = "call_with_retry"
                              /\ calls[c].outcome.status = "raise"
                              /\ calls[c].outcome.val.type = "ProviderRateLimitError"
                           \/ /\ calls[c].fn = "llm_retry_decorator"
                              /\ calls[c].outcome.status = "return"
                              /\ calls[c].outcome.val = "retry-me"
          IN  /\ calls[c].invoked <= N
              /\ calls[c].attempt_number =
                    IF calls[c].pc = "attempt" THEN calls[c].invoked + 1
                    ELSE calls[c].invoked
              /\ gaveUp => calls[c].invoked = N

\* caller 1 has used up the budget of call_with_retry; caller 2's call of it
\* still got its third attempt, which returned
C18_Witness ==
    /\ calls[1].pc = "done"
    /\ calls[1].fn = "call_with_retry"
    /\ calls[1].invoked = 3
    /\ calls[1].result.status = "raise"
    /\ calls[2].pc = "done"
    /\ calls[2].fn = "call_with_retry"
    /\ calls[2].invoked = 3
    /\ calls[2].result.status = "return"

====
